---- MODULE Spec2Model ----
(***************************************************************************)
(* FeaturesTabComponent of the release coordinator page                    *)
(* (features-tab.component.ts): the feature flag list, its per-flag backup *)
(* map, the rule/filter/condition editor operations, the duplicate         *)
(* validator, the change tracker and the update calls to the backend.      *)
(*                                                                         *)
(* Objects are modelled by value.  Every object lodash cloneDeep can be    *)
(* handed (a flag, a rule, a filter) carries a field `ref`: "own" for an   *)
(* object referenced from one place only, and the name of the shared       *)
(* object otherwise ("live" for a flag of featureFlags, "defaultNewRule"   *)
(* and "defaultNewFilter" for the two templates).  A write to an object    *)
(* whose ref is not "own" is seen through every other reference to it.     *)
(* Arrays are indexed from 0 in the source and from 1 here; every index    *)
(* that is an argument or a result of a modelled method is 0-based.        *)
(***************************************************************************)
EXTENDS Integers, Sequences, FiniteSets, TLC

VARIABLES
  serverStage,                \* this.serverStage
  featureFlagsAreFetched,     \* this.featureFlagsAreFetched
  featureFlags,               \* this.featureFlags
  featureFlagNameToBackupMap, \* this.featureFlagNameToBackupMap
  defaultNewRule,             \* this.defaultNewRule
  defaultNewFilter,           \* this.defaultNewFilter
  data,                       \* what apiService.getFeatureFlags() resolves to
  calls,                      \* the invocations of the two async save methods
  statusMessage,              \* what the last step emitted on setStatusMessage
  thrown,                     \* the error the last step's handler threw
  nEdits,                     \* number of editor operations performed
  returned,                   \* what the last step's synchronous query returned
  budget                      \* how many editor operations the session makes

vars == <<serverStage, featureFlagsAreFetched, featureFlags,
          featureFlagNameToBackupMap, defaultNewRule, defaultNewFilter, data,
          calls, statusMessage, thrown, nEdits, returned, budget>>

-----------------------------------------------------------------------------
(* Bounds of the model. *)

MaxEditFlags == 1
MaxEdits == 1
MaxTreeEdits == 3
MaxFlags == 3
MaxCalls == 2
MaxNodes == 5
MaxMoveRules == 3
MaxMoves == 2
MaxStageFlags == 2

-----------------------------------------------------------------------------
(* Small helpers. *)

Min(a, b) == IF a < b THEN a ELSE b

Max(a, b) == IF a > b THEN a ELSE b

SeqsUpTo(S, n) == UNION {[1..k -> S] : k \in 0..n}

-----------------------------------------------------------------------------
(* Stages and filter types. *)

DEV_SERVER_STAGE == "dev"

TEST_SERVER_STAGE == "test"

PROD_SERVER_STAGE == "prod"

PlatformType == "PlatformType"

AppVersion == "AppVersion"

AppVersionFlavor == "AppVersionFlavor"

availableFilterTypes == <<PlatformType, AppVersion, AppVersionFlavor>>

NoOptions == <<>>

\* AdminFeaturesTabConstants: only the first entry of each list is read.
ALLOWED_PLATFORM_TYPES == <<"Web", "Android", "Backend">>

ALLOWED_APP_VERSION_FLAVORS == <<"test", "alpha", "beta", "release">>

filterTypeToContext ==
  [t \in {PlatformType, AppVersion, AppVersionFlavor} |->
     CASE t = PlatformType ->
            [operators |-> <<"=">>,
             options |-> ALLOWED_PLATFORM_TYPES]
       [] t = AppVersion ->
            [operators |-> <<"=", "<", ">", "<=", ">=">>,
             options |-> NoOptions]
       [] t = AppVersionFlavor ->
            [operators |-> <<"=", "<", ">", "<=", ">=">>,
             options |-> ALLOWED_APP_VERSION_FLAVORS]]

DefaultNewFilterValue ==
  [type |-> PlatformType, conditions |-> <<>>, ref |-> "defaultNewFilter"]

DefaultNewRuleValue ==
  [filters |-> <<[type |-> PlatformType, conditions |-> <<>>, ref |-> "own"]>>,
   value_when_matched |-> FALSE,
   ref |-> "defaultNewRule"]

-----------------------------------------------------------------------------
(* lodash cloneDeep: a structurally equal value that shares no object with *)
(* its argument.                                                           *)

cloneDeepFilter(filter) == [filter EXCEPT !.ref = "own"]

cloneDeepFilters(filters) ==
  [k \in 1..Len(filters) |-> cloneDeepFilter(filters[k])]

\* The rule itself in place of a copy of it.
cloneDeepRule_Shared(rule) == rule

cloneDeepRule(rule) ==
  [rule EXCEPT !.ref = "own", !.filters = cloneDeepFilters(rule.filters)]

cloneDeepRules(rules) == [r \in 1..Len(rules) |-> cloneDeepRule(rules[r])]

cloneDeepFlag(feature) ==
  [feature EXCEPT !.ref = "own", !.rules = cloneDeepRules(feature.rules)]

(* lodash isEqual: deep, order-sensitive comparison of the values; it does *)
(* not look at which object it is handed.                                  *)

isEqualFilter(a, b) == a.type = b.type /\ a.conditions = b.conditions

isEqualFilters(a, b) ==
  /\ Len(a) = Len(b)
  /\ \A k \in 1..Len(a) : isEqualFilter(a[k], b[k])

isEqualRule(a, b) ==
  /\ a.value_when_matched = b.value_when_matched
  /\ isEqualFilters(a.filters, b.filters)

\* A comparison that stops at the number of rules.
isEqualRules_LengthOnly(a, b) == Len(a) = Len(b)

isEqualRules(a, b) ==
  /\ Len(a) = Len(b)
  /\ \A r \in 1..Len(a) : isEqualRule(a[r], b[r])

(* Array.prototype.splice(start, deleteCount, ...items) on a sequence. *)

splice(s, start, deleteCount, items) ==
  LET len == Len(s)
      from == IF start < 0 THEN Max(len + start, 0) ELSE Min(start, len)
      del == Min(Max(deleteCount, 0), len - from)
  IN SubSeq(s, 1, from) \o items \o SubSeq(s, from + del + 1, len)

-----------------------------------------------------------------------------
(* The editor operations, as functions from the object they are handed to  *)
(* the value it has afterwards.                                            *)

addNewRuleToTop(feature) ==
  [feature EXCEPT !.rules = <<cloneDeepRule(defaultNewRule)>> \o @]

addNewRuleToBottom(feature) ==
  [feature EXCEPT !.rules = Append(@, cloneDeepRule(defaultNewRule))]

addNewFilter(rule) ==
  [rule EXCEPT !.filters = Append(@, cloneDeepFilter(defaultNewFilter))]

addNewCondition(filter) ==
  LET context == filterTypeToContext[filter.type]
  IN [filter EXCEPT !.conditions =
        Append(@, <<context.operators[1],
                    IF context.options # NoOptions
                    THEN context.options[1] ELSE "">>)]

removeRule(feature, ruleIndex) ==
  [feature EXCEPT !.rules = splice(@, ruleIndex, 1, <<>>)]

removeFilter(rule, filterIndex) ==
  [rule EXCEPT !.filters = splice(@, filterIndex, 1, <<>>)]

removeCondition(filter, conditionIndex) ==
  [filter EXCEPT !.conditions = splice(@, conditionIndex, 1, <<>>)]

moveRuleUp(feature, ruleIndex) ==
  LET rule == feature.rules[ruleIndex + 1]
      removed == removeRule(feature, ruleIndex)
  IN [removed EXCEPT !.rules = splice(@, ruleIndex - 1, 0, <<rule>>)]

moveRuleDown(feature, ruleIndex) ==
  LET rule == feature.rules[ruleIndex + 1]
      removed == removeRule(feature, ruleIndex)
  IN [removed EXCEPT !.rules = splice(@, ruleIndex + 1, 0, <<rule>>)]

clearFilterConditions(filter) ==
  [filter EXCEPT !.conditions = splice(@, 0, Len(@), <<>>)]

-----------------------------------------------------------------------------
(* The predicates. *)

\* A test server that takes the flags staged test only.
getFeatureValidOnCurrentServer_TestOnly(feature) ==
  IF serverStage = DEV_SERVER_STAGE THEN TRUE
  ELSE IF serverStage = TEST_SERVER_STAGE
       THEN feature.featureStage = TEST_SERVER_STAGE
  ELSE IF serverStage = PROD_SERVER_STAGE
       THEN feature.featureStage = PROD_SERVER_STAGE
  ELSE FALSE

getFeatureValidOnCurrentServer(feature) ==
  IF serverStage = DEV_SERVER_STAGE THEN TRUE
  ELSE IF serverStage = TEST_SERVER_STAGE
       THEN (feature.featureStage = TEST_SERVER_STAGE
             \/ feature.featureStage = PROD_SERVER_STAGE)
  ELSE IF serverStage = PROD_SERVER_STAGE
       THEN feature.featureStage = PROD_SERVER_STAGE
  ELSE FALSE

\* isFeatureFlagChanged throws when the map has no entry for the flag.
BackupNotFound(feature) == feature.name \notin DOMAIN featureFlagNameToBackupMap

isFeatureFlagChanged(feature) ==
  LET original == featureFlagNameToBackupMap[feature.name]
  IN ~isEqualRules(original.rules, feature.rules)

-----------------------------------------------------------------------------
(* validateFeatureFlag.  An issue message is modelled by the numbers the   *)
(* template string interpolates, in the order they appear in it:           *)
(*   "The {first}-th & {second}-th rules are identical."                   *)
(*   "In the {rule}-th rule: the {first}-th & {second}-th filters ..."     *)
(*   "In the {rule}-th rule, {filter}-th filter: the {first}-th &          *)
(*    {second}-th conditions are identical."                               *)

\* Array.prototype.findIndex: 0-based index of the first match, or -1.
\* same[k] is the callback's result on the k-th element of the array.
findIndex(same) ==
  IF \E k \in 1..Len(same) : same[k]
  THEN (CHOOSE k \in 1..Len(same) :
          same[k] /\ \A j \in 1..(k - 1) : ~same[j]) - 1
  ELSE -1

RuleIssue(sameRuleIndex, ruleIndex) ==
  [kind |-> "rules", rule |-> 0, filter |-> 0,
   first |-> sameRuleIndex + 1, second |-> ruleIndex + 1]

FilterIssue(ruleIndex, sameFilterIndex, filterIndex) ==
  [kind |-> "filters", rule |-> ruleIndex + 1, filter |-> 0,
   first |-> sameFilterIndex + 1, second |-> filterIndex + 1]

ConditionIssue(ruleIndex, filterIndex, sameCondIndex, conditionIndex) ==
  [kind |-> "conditions", rule |-> ruleIndex + 1, filter |-> filterIndex + 1,
   first |-> sameCondIndex + 1, second |-> conditionIndex + 1]

RECURSIVE conditionLoop(_, _, _, _, _)
conditionLoop(conditions, conditionIndex, seenConditions, ruleIndex, filterIndex) ==
  IF conditionIndex >= Len(conditions) THEN <<>>
  ELSE
    LET condition == conditions[conditionIndex + 1]
        sameCondIndex ==
          findIndex([k \in 1..Len(seenConditions) |->
                       seenConditions[k] = condition])
    IN IF sameCondIndex # -1
       THEN <<ConditionIssue(ruleIndex, filterIndex,
                             sameCondIndex, conditionIndex)>>
            \o conditionLoop(conditions, conditionIndex + 1, seenConditions,
                             ruleIndex, filterIndex)
       ELSE conditionLoop(conditions, conditionIndex + 1,
                          Append(seenConditions, condition),
                          ruleIndex, filterIndex)

\* A filter whose conditions are not looked at.
filterBody_NoConditions(filter, ruleIndex, filterIndex) == <<>>

filterBody(filter, ruleIndex, filterIndex) ==
  conditionLoop(filter.conditions, 0, <<>>, ruleIndex, filterIndex)

RECURSIVE filterLoop(_, _, _, _)
filterLoop(filters, filterIndex, seenFilters, ruleIndex) ==
  IF filterIndex >= Len(filters) THEN <<>>
  ELSE
    LET filter == filters[filterIndex + 1]
        sameFilterIndex ==
          findIndex([k \in 1..Len(seenFilters) |->
                       isEqualFilter(seenFilters[k], filter)])
    IN IF sameFilterIndex # -1
       THEN <<FilterIssue(ruleIndex, sameFilterIndex, filterIndex)>>
            \o filterLoop(filters, filterIndex + 1, seenFilters, ruleIndex)
       ELSE filterBody(filter, ruleIndex, filterIndex)
            \o filterLoop(filters, filterIndex + 1,
                          Append(seenFilters, filter), ruleIndex)

ruleBody(rule, ruleIndex) == filterLoop(rule.filters, 0, <<>>, ruleIndex)

RECURSIVE ruleLoop(_, _, _)
ruleLoop(rules, ruleIndex, seenRules) ==
  IF ruleIndex >= Len(rules) THEN <<>>
  ELSE
    LET rule == rules[ruleIndex + 1]
        sameRuleIndex ==
          findIndex([k \in 1..Len(seenRules) |->
                       isEqualRule(seenRules[k], rule)])
    IN IF sameRuleIndex # -1
       THEN <<RuleIssue(sameRuleIndex, ruleIndex)>>
            \o ruleLoop(rules, ruleIndex + 1, seenRules)
       ELSE ruleBody(rule, ruleIndex)
            \o ruleLoop(rules, ruleIndex + 1, Append(seenRules, rule))

validateFeatureFlag(feature) == ruleLoop(feature.rules, 0, <<>>)

-----------------------------------------------------------------------------
(* Values exchanged with the backend and the parent component. *)

Flag(name, featureStage, rules) ==
  [name |-> name, featureStage |-> featureStage, rules |-> rules,
   ref |-> "live"]

FlagName(i) == <<"flag", i>>

Success == [class |-> "success", error |-> <<>>]

\* error: <<>> when e.error or e.error.error is missing, else
\* <<e.error.error>>
HttpErrorResponse(error) == [class |-> "HttpErrorResponse", error |-> error]

OtherError == [class |-> "Error", error |-> <<>>]

Responses ==
  {Success, HttpErrorResponse(<<>>), HttpErrorResponse(<<"">>),
   HttpErrorResponse(<<"Invalid rules.">>), OtherError}

NoStatus == <<>>

SavedSuccessfully == <<"Saved successfully.">>

UpdateFailed == <<"Update failed.">>

UpdateFailedWith(message) == <<"Update failed: ", message>>

NoError == <<>>

\* throw new Error('Unexpected error response.') leaving the async method
\* `call`: its promise is rejected with it, and nothing handles that.
Unexpected(call) ==
  <<[message |-> "Unexpected error response.", kind |-> call.kind,
     issued |-> call.issued]>>

NoCommitMessage == <<>>

\* A slot of the call table: kind "none" until the method is invoked.
\* pc: "awaiting" while suspended in await apiService.updateFeatureFlag.
\* flag: position in featureFlags of the flag being saved.
\* issued: the flag names of the update requests the call made, in order.
\* sent: the rules handed to the request in flight.
\* A call that returns or throws frees its slot.
IdleCall ==
  [kind |-> "none", pc |-> "idle", flag |-> 0, issued |-> <<>>,
   sent |-> <<>>]

NothingReturned == [fn |-> "none", arg |-> <<>>, value |-> <<>>]

\* apiService.updateFeatureFlag(feature.name, commitMessage, feature.rules)
\* made by `call` for the flag at position i: the rules are serialised into
\* the request when it is made.
Requested(call, i) ==
  [call EXCEPT !.pc = "awaiting", !.flag = i,
               !.issued = Append(@, featureFlags[i].name),
               !.sent = cloneDeepRules(featureFlags[i].rules)]

\* The call slot the next invocation takes.
NextCall(c) ==
  /\ c \in DOMAIN calls
  /\ calls[c].kind = "none"
  /\ \A b \in DOMAIN calls : b < c => calls[b].kind # "none"

-----------------------------------------------------------------------------
(* Writes seen through shared references. *)

SyncFilters(flags, filter) ==
  IF filter.ref = "own" THEN flags
  ELSE [i \in 1..Len(flags) |->
          [flags[i] EXCEPT !.rules =
             [r \in 1..Len(flags[i].rules) |->
                [flags[i].rules[r] EXCEPT !.filters =
                   [k \in 1..Len(flags[i].rules[r].filters) |->
                      IF flags[i].rules[r].filters[k].ref = filter.ref
                      THEN filter
                      ELSE flags[i].rules[r].filters[k]]]]]]

SyncRules(flags, rule) ==
  IF rule.ref = "own" THEN flags
  ELSE [i \in 1..Len(flags) |->
          [flags[i] EXCEPT !.rules =
             [r \in 1..Len(flags[i].rules) |->
                IF flags[i].rules[r].ref = rule.ref
                THEN rule ELSE flags[i].rules[r]]]]

\* A backup entry that is the live flag object itself follows the live flag.
SyncBackup(backupMap, flags) ==
  [n \in DOMAIN backupMap |->
     IF backupMap[n].ref = "own" THEN backupMap[n]
     ELSE IF \E i \in 1..Len(flags) : flags[i].name = n
          THEN flags[CHOOSE i \in 1..Len(flags) : flags[i].name = n]
          ELSE backupMap[n]]

\* Map.set
MapSet(map, key, value) ==
  [n \in DOMAIN map \cup {key} |-> IF n = key THEN value ELSE map[n]]

WriteFlag(i, feature) ==
  /\ featureFlags' = [featureFlags EXCEPT ![i] = feature]
  /\ featureFlagNameToBackupMap' =
       SyncBackup(featureFlagNameToBackupMap, featureFlags')
  /\ UNCHANGED <<defaultNewRule, defaultNewFilter>>

WriteRule(i, r, rule) ==
  /\ featureFlags' =
       SyncRules([featureFlags EXCEPT ![i].rules[r] = rule], rule)
  /\ featureFlagNameToBackupMap' =
       SyncBackup(featureFlagNameToBackupMap, featureFlags')
  /\ defaultNewRule' =
       IF rule.ref = defaultNewRule.ref THEN rule ELSE defaultNewRule
  /\ UNCHANGED defaultNewFilter

WriteFilter(i, r, k, filter) ==
  LET written == SyncFilters(
                   [featureFlags EXCEPT ![i].rules[r].filters[k] = filter],
                   filter)
      rule == written[i].rules[r]
  IN /\ featureFlags' = SyncRules(written, rule)
     /\ featureFlagNameToBackupMap' =
          SyncBackup(featureFlagNameToBackupMap, featureFlags')
     /\ defaultNewFilter' =
          IF filter.ref = defaultNewFilter.ref THEN filter
          ELSE defaultNewFilter
     /\ defaultNewRule' =
          IF rule.ref = defaultNewRule.ref THEN rule ELSE defaultNewRule

FlagIndexes == 1..Len(featureFlags)

RuleIndexes(i) == 0..(Len(featureFlags[i].rules) - 1)

FilterIndexes(i, ruleIndex) ==
  0..(Len(featureFlags[i].rules[ruleIndex + 1].filters) - 1)

ConditionIndexes(i, ruleIndex, filterIndex) ==
  0..(Len(featureFlags[i].rules[ruleIndex + 1]
            .filters[filterIndex + 1].conditions) - 1)

\* A step that emits no status message, throws nothing, returns nothing.
Quiet ==
  /\ statusMessage' = NoStatus
  /\ thrown' = NoError
  /\ returned' = NothingReturned

Edited ==
  /\ nEdits < budget.edits
  /\ nEdits' = nEdits + 1
  /\ Quiet
  /\ UNCHANGED <<serverStage, featureFlagsAreFetched, data, calls, budget>>

-----------------------------------------------------------------------------
(* The component's state after construction, awaiting the first fetch. *)

InitWith(fetchData, maxEdits, slots) ==
  /\ serverStage = ""
  /\ featureFlagsAreFetched = FALSE
  /\ featureFlags = <<>>
  /\ featureFlagNameToBackupMap = <<>>
  /\ defaultNewRule = DefaultNewRuleValue
  /\ defaultNewFilter = DefaultNewFilterValue
  /\ data \in fetchData
  /\ calls = [c \in slots |-> IdleCall]
  /\ statusMessage = NoStatus
  /\ thrown = NoError
  /\ nEdits = 0
  /\ returned = NothingReturned
  /\ budget = [edits |-> maxEdits]

(* reloadFeatureFlagsAsync, from the response of getFeatureFlags on. *)
ReloadFeatureFlagsAsync ==
  /\ ~featureFlagsAreFetched
  /\ serverStage' = data.serverStage
  /\ featureFlagsAreFetched' = TRUE
  /\ featureFlags' = data.featureFlags
  /\ featureFlagNameToBackupMap' =
       LET flags == data.featureFlags
           \* new Map(entries): the last entry of a name wins
           last(n) == CHOOSE i \in 1..Len(flags) :
                        /\ flags[i].name = n
                        /\ \A j \in (i + 1)..Len(flags) : flags[j].name # n
       IN [n \in {flags[i].name : i \in 1..Len(flags)} |->
             cloneDeepFlag(flags[last(n)])]
  /\ Quiet
  /\ UNCHANGED <<defaultNewRule, defaultNewFilter, data, calls, nEdits,
                 budget>>

(* The editor operations, invoked from the template on a loaded flag. *)

AddNewRuleToTop(i) ==
  /\ i \in FlagIndexes
  /\ WriteFlag(i, addNewRuleToTop(featureFlags[i]))
  /\ Edited

AddNewRuleToBottom(i) ==
  /\ i \in FlagIndexes
  /\ WriteFlag(i, addNewRuleToBottom(featureFlags[i]))
  /\ Edited

AddNewFilter(i, ruleIndex) ==
  /\ i \in FlagIndexes
  /\ ruleIndex \in RuleIndexes(i)
  /\ WriteRule(i, ruleIndex + 1,
               addNewFilter(featureFlags[i].rules[ruleIndex + 1]))
  /\ Edited

AddNewCondition(i, ruleIndex, filterIndex) ==
  /\ i \in FlagIndexes
  /\ ruleIndex \in RuleIndexes(i)
  /\ filterIndex \in FilterIndexes(i, ruleIndex)
  /\ WriteFilter(i, ruleIndex + 1, filterIndex + 1,
       addNewCondition(
         featureFlags[i].rules[ruleIndex + 1].filters[filterIndex + 1]))
  /\ Edited

RemoveRule(i, ruleIndex) ==
  /\ i \in FlagIndexes
  /\ ruleIndex \in RuleIndexes(i)
  /\ WriteFlag(i, removeRule(featureFlags[i], ruleIndex))
  /\ Edited

RemoveFilter(i, ruleIndex, filterIndex) ==
  /\ i \in FlagIndexes
  /\ ruleIndex \in RuleIndexes(i)
  /\ filterIndex \in FilterIndexes(i, ruleIndex)
  /\ WriteRule(i, ruleIndex + 1,
               removeFilter(featureFlags[i].rules[ruleIndex + 1], filterIndex))
  /\ Edited

RemoveCondition(i, ruleIndex, filterIndex, conditionIndex) ==
  /\ i \in FlagIndexes
  /\ ruleIndex \in RuleIndexes(i)
  /\ filterIndex \in FilterIndexes(i, ruleIndex)
  /\ conditionIndex \in ConditionIndexes(i, ruleIndex, filterIndex)
  /\ WriteFilter(i, ruleIndex + 1, filterIndex + 1,
       removeCondition(
         featureFlags[i].rules[ruleIndex + 1].filters[filterIndex + 1],
         conditionIndex))
  /\ Edited

MoveRuleUp(i, ruleIndex) ==
  /\ i \in FlagIndexes
  /\ ruleIndex \in RuleIndexes(i)
  /\ WriteFlag(i, moveRuleUp(featureFlags[i], ruleIndex))
  /\ Edited

MoveRuleDown(i, ruleIndex) ==
  /\ i \in FlagIndexes
  /\ ruleIndex \in RuleIndexes(i)
  /\ WriteFlag(i, moveRuleDown(featureFlags[i], ruleIndex))
  /\ Edited

ClearFilterConditions(i, ruleIndex, filterIndex) ==
  /\ i \in FlagIndexes
  /\ ruleIndex \in RuleIndexes(i)
  /\ filterIndex \in FilterIndexes(i, ruleIndex)
  /\ WriteFilter(i, ruleIndex + 1, filterIndex + 1,
       clearFilterConditions(
         featureFlags[i].rules[ruleIndex + 1].filters[filterIndex + 1]))
  /\ Edited

(* clearChanges; confirmed is the answer to window.confirm. *)
ClearChanges(i, confirmed) ==
  /\ i \in FlagIndexes
  /\ LET featureFlag == featureFlags[i]
     IN IF confirmed /\ ~BackupNotFound(featureFlag)
        THEN WriteFlag(i,
               [featureFlag EXCEPT !.rules = cloneDeepRules(
                  featureFlagNameToBackupMap[featureFlag.name].rules)])
        ELSE UNCHANGED <<featureFlags, featureFlagNameToBackupMap,
                         defaultNewRule, defaultNewFilter>>
  /\ Quiet
  /\ UNCHANGED <<serverStage, featureFlagsAreFetched, data, calls, nEdits,
                 budget>>

-----------------------------------------------------------------------------
(* The save methods. *)

Truthy(error) == error # <<>> /\ error # <<"">>

\* A catch block that swallows every failure.
Rethrows_Never(e) == FALSE

\* The catch block of updateFeatureFlag: whether it rethrows.
Rethrows(e) == e.class # "HttpErrorResponse"

\* A catch block that drops the server's message.
FailureStatus_Generic(e) == UpdateFailed

\* The catch block of updateFeatureFlag: what it emits for an HTTP error.
FailureStatus(e) ==
  IF Truthy(e.error) THEN UpdateFailedWith(e.error[1]) ELSE UpdateFailed

(* updateFeatureRulesAsync up to its await; commitMessage is what          *)
(* window.prompt returns (NoCommitMessage for null).                       *)
UpdateFeatureRulesAsync(c, i, commitMessage) ==
  /\ NextCall(c)
  /\ i \in FlagIndexes
  /\ LET feature == featureFlags[i]
         issues == validateFeatureFlag(feature)
         call == [IdleCall EXCEPT !.kind = "updateFeatureRulesAsync"]
     IN calls' = [calls EXCEPT ![c] =
          IF Len(issues) > 0 THEN IdleCall     \* alert(issues); return
          ELSE IF commitMessage = NoCommitMessage THEN IdleCall
          ELSE Requested(call, i)]
  /\ Quiet
  /\ UNCHANGED <<serverStage, featureFlagsAreFetched, featureFlags,
                 featureFlagNameToBackupMap, defaultNewRule, defaultNewFilter,
                 data, nEdits, budget>>

(* saveDefaultValueToStorage up to its first await; confirmed is the       *)
(* answer to window.confirm.                                               *)
SaveDefaultValueToStorage(c, confirmed) ==
  /\ NextCall(c)
  /\ LET call == [IdleCall EXCEPT !.kind = "saveDefaultValueToStorage"]
     IN calls' = [calls EXCEPT ![c] =
          IF ~confirmed THEN IdleCall
          ELSE IF Len(featureFlags) = 0 THEN IdleCall
          ELSE Requested(call, 1)]
  /\ Quiet
  /\ UNCHANGED <<serverStage, featureFlagsAreFetched, featureFlags,
                 featureFlagNameToBackupMap, defaultNewRule, defaultNewFilter,
                 data, nEdits, budget>>

\* The caller of updateFeatureFlag after it returned (threw = FALSE) or
\* threw: the for loop of saveDefaultValueToStorage goes on to the next
\* flag, updateFeatureRulesAsync ends.
Continue(call, threw) ==
  IF threw THEN IdleCall
  ELSE IF /\ call.kind = "saveDefaultValueToStorage"
          /\ call.flag < Len(featureFlags)
       THEN Requested(call, call.flag + 1)
  ELSE IdleCall

(* updateFeatureFlag from the settling of apiService.updateFeatureFlag on, *)
(* and the caller's continuation up to its next await or its end.  e is    *)
(* the response: Success, or what the promise was rejected with.           *)
UpdateFeatureFlagSettled(c, e) ==
  /\ c \in DOMAIN calls
  /\ calls[c].pc = "awaiting"
  /\ e \in Responses
  /\ LET feature == featureFlags[calls[c].flag]
         threw == e.class # "success" /\ Rethrows(e)
     IN /\ IF e.class = "success"
           THEN /\ featureFlagNameToBackupMap' =
                     MapSet(featureFlagNameToBackupMap, feature.name,
                            cloneDeepFlag(feature))
                /\ statusMessage' = SavedSuccessfully
           ELSE /\ UNCHANGED featureFlagNameToBackupMap
                /\ statusMessage' =
                     IF threw THEN NoStatus ELSE FailureStatus(e)
        /\ thrown' = IF threw THEN Unexpected(calls[c]) ELSE NoError
        /\ calls' = [calls EXCEPT ![c] =
             Continue(@, threw)]
  /\ returned' = NothingReturned
  /\ UNCHANGED <<serverStage, featureFlagsAreFetched, featureFlags,
                 defaultNewRule, defaultNewFilter, data, nEdits, budget>>

-----------------------------------------------------------------------------
(* The editor session: every handler of the component, on a fetched list   *)
(* of flags.                                                               *)

WebRule ==
  [filters |-> <<[type |-> PlatformType,
                  conditions |-> <<<<"=", "Web">>>>, ref |-> "own"]>>,
   value_when_matched |-> TRUE, ref |-> "own"]

FetchData(maxFlags) ==
  {[serverStage |-> DEV_SERVER_STAGE,
    featureFlags |->
      [i \in 1..n |-> Flag(FlagName(i), DEV_SERVER_STAGE, <<WebRule>>)]] :
   n \in 0..maxFlags}

\* The slots for calls in flight when calls are made one at a time.
OneAtATime == {1}

Init == InitWith(FetchData(MaxEditFlags), MaxEdits, OneAtATime)

Edit ==
  \/ \E i \in FlagIndexes : AddNewRuleToTop(i)
  \/ \E i \in FlagIndexes : AddNewRuleToBottom(i)
  \/ \E i \in FlagIndexes : \E r \in RuleIndexes(i) : AddNewFilter(i, r)
  \/ \E i \in FlagIndexes : \E r \in RuleIndexes(i) :
       \E k \in FilterIndexes(i, r) : AddNewCondition(i, r, k)
  \/ \E i \in FlagIndexes : \E r \in RuleIndexes(i) : RemoveRule(i, r)
  \/ \E i \in FlagIndexes : \E r \in RuleIndexes(i) :
       \E k \in FilterIndexes(i, r) : RemoveFilter(i, r, k)
  \/ \E i \in FlagIndexes : \E r \in RuleIndexes(i) :
       \E k \in FilterIndexes(i, r) :
         \E n \in ConditionIndexes(i, r, k) : RemoveCondition(i, r, k, n)
  \/ \E i \in FlagIndexes : \E r \in RuleIndexes(i) : MoveRuleUp(i, r)
  \/ \E i \in FlagIndexes : \E r \in RuleIndexes(i) : MoveRuleDown(i, r)
  \/ \E i \in FlagIndexes : \E r \in RuleIndexes(i) :
       \E k \in FilterIndexes(i, r) : ClearFilterConditions(i, r, k)

Save ==
  \/ \E c \in DOMAIN calls : \E i \in FlagIndexes :
       \E commitMessage \in {NoCommitMessage, <<"Update feature.">>} :
         UpdateFeatureRulesAsync(c, i, commitMessage)
  \/ \E c \in DOMAIN calls : \E confirmed \in BOOLEAN :
       SaveDefaultValueToStorage(c, confirmed)
  \/ \E c \in DOMAIN calls : \E e \in Responses :
       UpdateFeatureFlagSettled(c, e)

Next ==
  \/ ReloadFeatureFlagsAsync
  \/ Edit
  \/ \E i \in FlagIndexes : \E confirmed \in BOOLEAN :
       ClearChanges(i, confirmed)
  \/ Save

Spec == Init /\ [][Next]_vars

(* The save handlers on a longer list of flags that is not edited. *)

InitSave == InitWith(FetchData(MaxFlags), 0, 1..MaxCalls)

NextSave ==
  \/ ReloadFeatureFlagsAsync
  \/ Save

SpecSave == InitSave /\ [][NextSave]_vars

(* A longer editing session on the flag of the spec's scenario, one save  *)
(* call at a time.                                                         *)

FooData ==
  {[serverStage |-> DEV_SERVER_STAGE,
    featureFlags |-> <<Flag("Foo", DEV_SERVER_STAGE, <<WebRule>>)>>]}

InitEdit == InitWith(FooData, MaxTreeEdits, OneAtATime)

SpecEdit == InitEdit /\ [][Next]_vars

-----------------------------------------------------------------------------
(* The synchronous queries, called on the component as it stands. *)

Component ==
  <<serverStage, featureFlagsAreFetched, featureFlags,
    featureFlagNameToBackupMap, defaultNewRule, defaultNewFilter, data,
    calls, nEdits, budget>>

Query(fn, arg, value) ==
  /\ returned' = [fn |-> fn, arg |-> arg, value |-> value]
  /\ statusMessage' = NoStatus
  /\ thrown' = NoError
  /\ UNCHANGED Component

ValidateFeatureFlag(i) ==
  /\ i \in FlagIndexes
  /\ Query("validateFeatureFlag", i, validateFeatureFlag(featureFlags[i]))

GetFeatureValidOnCurrentServer(feature) ==
  Query("getFeatureValidOnCurrentServer", feature,
        getFeatureValidOnCurrentServer(feature))

(* validateFeatureFlag on the rule trees of at most MaxNodes nodes (rules, *)
(* filters and conditions counted) over two conditions, two filter types   *)
(* and both values.                                                        *)

TestConditions == {<<"=", "Web">>, <<"=", "Android">>}

TestFilterTypes == {PlatformType, AppVersion}

FiltersOfSize(n) ==
  {[type |-> t, conditions |-> cs, ref |-> "own"] :
     t \in TestFilterTypes, cs \in SeqsUpTo(TestConditions, n - 1)}

RECURSIVE FilterLists(_)
FilterLists(n) ==
  IF n <= 0 THEN {<<>>}
  ELSE {<<>>} \cup
       UNION {{<<f>> \o rest :
                 rest \in FilterLists(n - 1 - Len(f.conditions))} :
              f \in FiltersOfSize(n)}

RECURSIVE FiltersSize(_)
FiltersSize(filters) ==
  IF filters = <<>> THEN 0
  ELSE 1 + Len(Head(filters).conditions) + FiltersSize(Tail(filters))

RulesOfSize(n) ==
  {[filters |-> fs, value_when_matched |-> v, ref |-> "own"] :
     v \in BOOLEAN, fs \in FilterLists(n - 1)}

RECURSIVE RuleLists(_)
RuleLists(n) ==
  IF n <= 0 THEN {<<>>}
  ELSE {<<>>} \cup
       UNION {{<<r>> \o rest :
                 rest \in RuleLists(n - 1 - FiltersSize(r.filters))} :
              r \in RulesOfSize(n)}

ValidateData ==
  {[serverStage |-> DEV_SERVER_STAGE,
    featureFlags |-> <<Flag("Foo", DEV_SERVER_STAGE, rules)>>] :
   rules \in RuleLists(MaxNodes)}

InitValidate == InitWith(ValidateData, 0, {})

NextValidate ==
  \/ ReloadFeatureFlagsAsync
  \/ \E i \in FlagIndexes : ValidateFeatureFlag(i)

SpecValidate == InitValidate /\ [][NextValidate]_vars

(* moveRuleUp and moveRuleDown on the rule lists of at most MaxMoveRules   *)
(* rules over three rules, up to MaxMoves moves in a row.                  *)

DefaultRule == cloneDeepRule(DefaultNewRuleValue)

EmptyRule == [filters |-> <<>>, value_when_matched |-> TRUE, ref |-> "own"]

MoveData ==
  {[serverStage |-> DEV_SERVER_STAGE,
    featureFlags |-> <<Flag("Foo", DEV_SERVER_STAGE, rules)>>] :
   rules \in SeqsUpTo({WebRule, DefaultRule, EmptyRule}, MaxMoveRules)}

InitMove == InitWith(MoveData, MaxMoves, {})

NextMove ==
  \/ ReloadFeatureFlagsAsync
  \/ \E i \in FlagIndexes : \E r \in RuleIndexes(i) : MoveRuleUp(i, r)
  \/ \E i \in FlagIndexes : \E r \in RuleIndexes(i) : MoveRuleDown(i, r)

SpecMove == InitMove /\ [][NextMove]_vars

(* getFeatureValidOnCurrentServer for every server stage and flag stage,   *)
(* before and after the fetch.                                             *)

FeatureStages == {DEV_SERVER_STAGE, TEST_SERVER_STAGE, PROD_SERVER_STAGE}

ServerStages == FeatureStages \cup {"", "staging"}

StageFlags == {Flag("Foo", stage, <<>>) : stage \in FeatureStages}

StageData ==
  {[serverStage |-> stage, featureFlags |-> flags] :
   stage \in ServerStages, flags \in SeqsUpTo(StageFlags, MaxStageFlags)}

InitStage == InitWith(StageData, 0, {})

NextStage ==
  \/ ReloadFeatureFlagsAsync
  \/ \E feature \in StageFlags : GetFeatureValidOnCurrentServer(feature)

SpecStage == InitStage /\ [][NextStage]_vars

-----------------------------------------------------------------------------
(* Properties. *)

\* The value of a list of rules, whichever objects hold it.
PlainFilters(filters) ==
  [k \in 1..Len(filters) |->
     [type |-> filters[k].type, conditions |-> filters[k].conditions]]

PlainRule(rule) ==
  [filters |-> PlainFilters(rule.filters),
   value_when_matched |-> rule.value_when_matched]

PlainRules(rules) == [r \in 1..Len(rules) |-> PlainRule(rules[r])]

BulkCall(c) == calls[c].kind = "saveDefaultValueToStorage"

NamesUpTo(k) == [i \in 1..k |-> featureFlags[i].name]

HasMessage(e) == Len(e.error) = 1 /\ e.error[1] # ""

\* C10: getFeatureValidOnCurrentServer changes nothing and returns TRUE for
\* every flag on a dev server, for the flags staged test or prod on a test
\* server, for the flags staged prod on a prod server, and FALSE on any
\* other server stage, the empty one before the first fetch included.
C10_ValidOnCurrentServer ==
  /\ [](returned.fn = "getFeatureValidOnCurrentServer" =>
          returned.value =
            (\/ serverStage = "dev"
             \/ serverStage = "test"
                /\ returned.arg.featureStage \in {"test", "prod"}
             \/ serverStage = "prod" /\ returned.arg.featureStage = "prod"))
  /\ [][returned'.fn = "getFeatureValidOnCurrentServer" =>
          UNCHANGED Component]_vars

C10_Witness ==
  /\ returned.fn = "getFeatureValidOnCurrentServer"
  /\ featureFlagsAreFetched
  /\ serverStage = "test"
  /\ returned.arg.featureStage = "dev"
  /\ returned.value = FALSE

NoDuplicates(siblings) ==
  \A p, q \in 1..Len(siblings) : p < q => siblings[p] # siblings[q]

NoDuplicateSiblings(rules) ==
  /\ NoDuplicates(PlainRules(rules))
  /\ \A r \in 1..Len(rules) :
       LET filters == PlainFilters(rules[r].filters)
       IN /\ NoDuplicates(filters)
          /\ \A k \in 1..Len(filters) :
               NoDuplicates(filters[k].conditions)

\* C8: validateFeatureFlag returns no issue exactly when no two rules of
\* the flag, no two filters of one rule and no two conditions of one filter
\* are equal, and calling it changes nothing.
C8_EmptyIffNoDuplicates ==
  /\ [](returned.fn = "validateFeatureFlag" =>
          (returned.value = <<>>
             <=> NoDuplicateSiblings(featureFlags[returned.arg].rules)))
  /\ [][returned'.fn = "validateFeatureFlag" => UNCHANGED Component]_vars

C8_Witness ==
  /\ returned.fn = "validateFeatureFlag"
  /\ returned.value = <<>>
  /\ Len(featureFlags[returned.arg].rules) >= 2
  /\ \E r \in 1..Len(featureFlags[returned.arg].rules) :
       Len(featureFlags[returned.arg].rules[r].filters) >= 1

\* The siblings an issue speaks of: the rules of the flag, the filters of
\* the rule it names, or the conditions of the rule and filter it names.
SiblingsOf(rules, issue) ==
  CASE issue.kind = "rules" -> PlainRules(rules)
    [] issue.kind = "filters" -> PlainFilters(rules[issue.rule].filters)
    [] issue.kind = "conditions" ->
         rules[issue.rule].filters[issue.filter].conditions

\* C2: every issue validateFeatureFlag returns names two positions
\* first < second of its parent sequence, and the siblings at these two
\* positions are equal.
C2_IssuesNameEqualSiblings ==
  returned.fn = "validateFeatureFlag" =>
    \A n \in 1..Len(returned.value) :
      LET issue == returned.value[n]
          siblings == SiblingsOf(featureFlags[returned.arg].rules, issue)
      IN /\ 1 <= issue.first
         /\ issue.first < issue.second
         /\ issue.second <= Len(siblings)
         /\ siblings[issue.first] = siblings[issue.second]

\* The sequence with the element at 0-based position from moved to 0-based
\* position to, the others keeping their order.
MovedTo(rules, from, to) ==
  LET others == SubSeq(rules, 1, from) \o SubSeq(rules, from + 2, Len(rules))
  IN SubSeq(others, 1, to) \o <<rules[from + 1]>>
       \o SubSeq(others, to + 1, Len(others))

\* C7: moveRuleUp(flag, i) leaves the same rules with the moved rule at
\* position max(i-1, 0), and moveRuleDown(flag, i) with it at position
\* min(i+1, n-1), the other rules keeping their order.
C7_MoveKeepsSequence ==
  [][\A i \in FlagIndexes : \A r \in RuleIndexes(i) :
       LET rules == featureFlags[i].rules
       IN /\ MoveRuleUp(i, r) =>
               featureFlags'[i].rules = MovedTo(rules, r, Max(r - 1, 0))
          /\ MoveRuleDown(i, r) =>
               featureFlags'[i].rules =
                 MovedTo(rules, r, Min(r + 1, Len(rules) - 1))]_vars

\* C5: saveDefaultValueToStorage requests the flags in list order, the next
\* one in the step that observes the response to the one before, goes on
\* after an HTTP error response, and after any other failure throws and
\* requests nothing more.
C5_BulkSaveSequential ==
  /\ [](\A c \in DOMAIN calls :
          BulkCall(c) =>
            /\ calls[c].pc = "awaiting"
            /\ calls[c].flag \in FlagIndexes
            /\ calls[c].issued = NamesUpTo(calls[c].flag))
  /\ [][\A c \in DOMAIN calls :
          /\ SaveDefaultValueToStorage(c, TRUE) /\ featureFlags # <<>> =>
               calls'[c].issued = NamesUpTo(1)
          /\ BulkCall(c) /\ calls'[c] # calls[c] =>
               \E e \in Responses : UpdateFeatureFlagSettled(c, e)
          /\ \A e \in Responses :
               BulkCall(c) /\ UpdateFeatureFlagSettled(c, e) =>
                 IF e.class = "Error"
                 THEN /\ calls'[c] = IdleCall
                      /\ thrown' # NoError
                      /\ thrown'[1].issued = NamesUpTo(calls[c].flag)
                 ELSE /\ thrown' = NoError
                      /\ IF calls[c].flag < Len(featureFlags)
                         THEN /\ BulkCall(c)'
                              /\ calls'[c].issued =
                                   NamesUpTo(calls[c].flag + 1)
                         ELSE calls'[c] = IdleCall]_vars

C5_Witness ==
  /\ Len(featureFlags) = 3
  /\ thrown # NoError
  /\ thrown[1].kind = "saveDefaultValueToStorage"
  /\ thrown[1].issued = NamesUpTo(2)
  /\ \A c \in DOMAIN calls : ~BulkCall(c)

\* C6: a failed updateFeatureFlag leaves the backup map as it was and does
\* not emit 'Saved successfully.'; an HTTP error with a message emits
\* 'Update failed: <message>', one without emits 'Update failed.', and any
\* other failure is thrown on and emits nothing.
C6_FailureHandling ==
  [][\A c \in DOMAIN calls : \A e \in Responses \ {Success} :
       UpdateFeatureFlagSettled(c, e) =>
         /\ featureFlagNameToBackupMap' = featureFlagNameToBackupMap
         /\ statusMessage' # SavedSuccessfully
         /\ IF e.class = "HttpErrorResponse"
            THEN /\ thrown' = NoError
                 /\ statusMessage' =
                      IF HasMessage(e)
                      THEN <<"Update failed: ", e.error[1]>>
                      ELSE <<"Update failed.">>
            ELSE /\ thrown' # NoError
                 /\ thrown'[1].message = "Unexpected error response."
                 /\ statusMessage' = NoStatus]_vars

C6_Witness ==
  /\ statusMessage = <<"Update failed: ", "Invalid rules.">>
  /\ \E i \in FlagIndexes : isFeatureFlagChanged(featureFlags[i])

\* C3: when updateFeatureFlag succeeds, the backup entry of the flag is the
\* rules that were sent in the request.
C3_BackupIsWhatWasSent ==
  [][\A c \in DOMAIN calls :
       UpdateFeatureFlagSettled(c, Success) =>
         PlainRules(featureFlagNameToBackupMap'[
                      featureFlags[calls[c].flag].name].rules)
           = PlainRules(calls[c].sent)]_vars

\* C4: no update request is in flight with rules validateFeatureFlag
\* finds an issue in.
C4_NoRequestForInvalidFlag ==
  \A c \in DOMAIN calls :
    calls[c].pc = "awaiting" => NoDuplicateSiblings(calls[c].sent)

\* A step of an editor operation: nothing else counts an edit.
EditStep == nEdits' = nEdits + 1

Differs(i) ==
  PlainRules(featureFlags[i].rules) #
    PlainRules(featureFlagNameToBackupMap[featureFlags[i].name].rules)

\* C1: isFeatureFlagChanged of a loaded flag is FALSE right after the
\* fetch, TRUE after an editor operation that changes the rules of an
\* unchanged flag, FALSE after a confirmed clearChanges, and in every state
\* it tells whether the rules differ from the backup's.
C1_ChangeTracking ==
  /\ [](\A i \in FlagIndexes :
          /\ ~BackupNotFound(featureFlags[i])
          /\ isFeatureFlagChanged(featureFlags[i]) <=> Differs(i))
  /\ [][/\ ReloadFeatureFlagsAsync => \A i \in FlagIndexes' : ~Differs(i)'
        /\ \A i \in FlagIndexes :
             /\ ( /\ EditStep
                  /\ ~Differs(i)
                  /\ PlainRules(featureFlags'[i].rules)
                       # PlainRules(featureFlags[i].rules) ) => Differs(i)'
             /\ ClearChanges(i, TRUE) => ~Differs(i)']_vars

C1_Witness ==
  /\ nEdits = 2
  /\ \E i \in FlagIndexes :
       /\ isFeatureFlagChanged(featureFlags[i])
       /\ Len(featureFlags[i].rules) = 1

RuleEdit(i, r) ==
  \/ AddNewFilter(i, r)
  \/ \E k \in FilterIndexes(i, r) :
       \/ RemoveFilter(i, r, k)
       \/ AddNewCondition(i, r, k)
       \/ ClearFilterConditions(i, r, k)
       \/ \E n \in ConditionIndexes(i, r, k) : RemoveCondition(i, r, k, n)

\* C9: an edit of one rule changes no other rule and no other flag, the
\* two templates behind addNewRuleToTop, addNewRuleToBottom and
\* addNewFilter keep their value, and the backup map changes only in
\* reloadFeatureFlagsAsync and on a successful updateFeatureFlag.
C9_NoAliasing ==
  /\ [](/\ defaultNewRule = DefaultNewRuleValue
        /\ defaultNewFilter = DefaultNewFilterValue)
  /\ [][/\ featureFlagNameToBackupMap' # featureFlagNameToBackupMap =>
             \/ ReloadFeatureFlagsAsync
             \/ \E c \in DOMAIN calls : UpdateFeatureFlagSettled(c, Success)
        /\ \A i \in FlagIndexes :
             /\ ( /\ featureFlags'[i] # featureFlags[i]
                  /\ EditStep \/ ClearChanges(i, TRUE) ) =>
                  \A j \in FlagIndexes \ {i} :
                    featureFlags'[j] = featureFlags[j]
             /\ \A r \in RuleIndexes(i) :
                  EditStep /\ RuleEdit(i, r) =>
                    /\ Len(featureFlags'[i].rules) = Len(featureFlags[i].rules)
                    /\ \A j \in 1..Len(featureFlags[i].rules) :
                         j # r + 1 =>
                           featureFlags'[i].rules[j] = featureFlags[i].rules[j]
       ]_vars

C9_Witness ==
  /\ nEdits = 3
  /\ \E i \in FlagIndexes :
       /\ Len(featureFlags[i].rules) = 3
       /\ Len(featureFlags[i].rules[1].filters) = 2
       /\ featureFlags[i].rules[2] = cloneDeepRule(DefaultNewRuleValue)
       /\ ~isFeatureFlagChanged(
             [featureFlags[i] EXCEPT !.rules = <<featureFlags[i].rules[3]>>])

====
